---- MODULE Spec2Model ----
(***************************************************************************)
(* Model of Scene_distribution.py: detect_scenes_dynamic (motion-adaptive  *)
(* frame skipping driving an incremental cut detector, then the boundary   *)
(* builder), merge_short_scenes, split_scenes and the __main__ pipeline.   *)
(*                                                                         *)
(* Times are Python floats in the source.  They are modelled as exact      *)
(* rationals <<num, den>> in lowest terms with den > 0, so that b/fps and  *)
(* end - start are computed, not assumed; floating-point rounding is not   *)
(* modelled.  The frame rate is positive (the documented precondition of   *)
(* the boundary builder).                                                  *)
(***************************************************************************)
EXTENDS Integers, Sequences, FiniteSets, TLC

\* ------------------------------------------------------------------ bounds
MaxFrames == 4          \* frames a source yields
MaxCuts == 3            \* cuts the detector reports in one run, over all its calls
MaxScenes == 3          \* length of the scene lists given to the merger directly
MaxTick == 3            \* largest time, in half seconds, in those lists

\* ------------------------------------------------------------------ inputs
FrameRates == {1, 2}                \* cap.get(CAP_PROP_FPS)
MotionVals == {3, 5, 6}             \* absdiff(...).mean() of an analyzed frame
MotionThresholds == {5}             \* motion_threshold
MinSkips == {0, 1}                  \* min_skip
MaxSkips == {0, 2}                  \* max_skip
MinDurations == {1, 2}              \* min_duration (s)
FrameCountErrors == {-1, 0, 1}      \* CAP_PROP_FRAME_COUNT minus the frames read

\* --------------------------------------------------------------- rationals
RECURSIVE GCD(_, _)
GCD(a, b) == IF b = 0 THEN a ELSE GCD(b, a % b)

Abs(n) == IF n < 0 THEN -n ELSE n

\* n/d in lowest terms (d > 0)
Rat(n, d) ==
    LET g == GCD(Abs(n), d) IN <<n \div g, d \div g>>

\* boundaries[i]/fps
FrameTime(b, rate) == Rat(b, rate)

\* x - y
RSub(x, y) == Rat(x[1] * y[2] - y[1] * x[2], x[2] * y[2])

\* x + y
RAdd(x, y) == Rat(x[1] * y[2] + y[1] * x[2], x[2] * y[2])

\* x < y
RLess(x, y) == x[1] * y[2] < y[1] * x[2]

RLeq(x, y) == x[1] * y[2] <= y[1] * x[2]

Zero == Rat(0, 1)

Range(s) == {s[i] : i \in 1..Len(s)}

\* sequences over S of length 0..n
SeqsUpTo(S, n) == UNION {[1..k -> S] : k \in 0..n}

\* ------------------------------------------------------- boundary builder
RECURSIVE SortSet(_)
SortSet(S) ==
    IF S = {} THEN <<>>
    ELSE LET m == CHOOSE x \in S : \A y \in S : x <= y
         IN <<m>> \o SortSet(S \ {m})

\* insert x into the ascending list s (keeps duplicates)
RECURSIVE InsertSorted(_, _)
InsertSorted(x, s) ==
    IF s = <<>> THEN <<x>>
    ELSE IF x <= Head(s) THEN <<x>> \o s
    ELSE <<Head(s)>> \o InsertSorted(x, Tail(s))

RECURSIVE SortList(_)
SortList(s) == IF s = <<>> THEN <<>> ELSE InsertSorted(Head(s), SortList(Tail(s)))

\* sorted(cut_frame_nums): the set() dropped
SortedKeepingDuplicates(cuts) == SortList(cuts)

\* sorted(set(cut_frame_nums))
SortedUnique(cuts) == SortSet(Range(cuts))

\* cut_frame_nums + [total_frames]: the leading 0 dropped
BoundariesNoZero(cuts, total) == cuts \o <<total>>

\* [0] + cut_frame_nums + [total_frames]
Boundaries(cuts, total) == <<0>> \o cuts \o <<total>>

\* [(boundaries[i]/fps, boundaries[i+1]/fps) for i in range(len(boundaries)-1)]
ScenesOf(bs, rate) ==
    [i \in 1..(Len(bs) - 1) |-> <<FrameTime(bs[i], rate), FrameTime(bs[i + 1], rate)>>]

\* ------------------------------------------------------------ scene merger
\* the loop body with the test duration <= min_duration
MergeStepLeq(merged, sc, md) ==
    LET prev == merged[Len(merged)]
        duration == RSub(sc[2], sc[1])
    IN IF RLeq(duration, md)
       THEN [merged EXCEPT ![Len(merged)] = <<prev[1], sc[2]>>]
       ELSE Append(merged, sc)

\* the loop body dropping a short scene instead of extending its predecessor
MergeStepDrop(merged, sc, md) ==
    LET duration == RSub(sc[2], sc[1])
    IN IF RLess(duration, md) THEN merged ELSE Append(merged, sc)

\* the loop body extending from the short scene's start: (start, end) instead
\* of (prev_start, end)
MergeStepReplaceStart(merged, sc, md) ==
    LET duration == RSub(sc[2], sc[1])
    IN IF RLess(duration, md)
       THEN [merged EXCEPT ![Len(merged)] = <<sc[1], sc[2]>>]
       ELSE Append(merged, sc)

\* the loop body with the test reversed: duration > min_duration
MergeStepInverted(merged, sc, md) ==
    LET prev == merged[Len(merged)]
        duration == RSub(sc[2], sc[1])
    IN IF RLess(md, duration)
       THEN [merged EXCEPT ![Len(merged)] = <<prev[1], sc[2]>>]
       ELSE Append(merged, sc)

\* the loop body testing the span the merge would give: end - prev_start
MergeStepSpan(merged, sc, md) ==
    LET prev == merged[Len(merged)]
        duration == RSub(sc[2], prev[1])
    IN IF RLess(duration, md)
       THEN [merged EXCEPT ![Len(merged)] = <<prev[1], sc[2]>>]
       ELSE Append(merged, sc)

\* one iteration of the loop of merge_short_scenes
MergeStep(merged, sc, md) ==
    LET prev == merged[Len(merged)]
        duration == RSub(sc[2], sc[1])
    IN IF RLess(duration, md)
       THEN [merged EXCEPT ![Len(merged)] = <<prev[1], sc[2]>>]
       ELSE Append(merged, sc)

RECURSIVE MergeLoop(_, _, _, _)
MergeLoop(merged, lst, i, md) ==
    IF i > Len(lst) THEN merged
    ELSE MergeLoop(MergeStep(merged, lst[i], md), lst, i + 1, md)

merge_short_scenes(lst, md) ==
    IF lst = <<>> THEN <<>> ELSE MergeLoop(<<lst[1]>>, lst, 2, md)

\* ---------------------------------------------------------------- splitter
\* f"{t:.3f}": t rounded to the nearest millisecond, as a number of ms
Fmt3(t) == (2000 * t[1] + t[2]) \div (2 * t[2])

\* ---------------------------------------------------------------- detector
\* the content of frame i of a source whose content changes at the frames in
\* cuts: the number of changes at or before i
Content(cuts, i) == Cardinality({c \in cuts : c <= i})

\* what a detector may return from a call with frame index i: any list of
\* at most room cut indices in 1..i
CutLists(i, room) == SeqsUpTo(1..i, room)

\* detector.process_frame(frame_num, frame): the possible return values.
\* kind "any": the black box; kind "first_seen": a detector that reports a
\* cut at the frame where it first observes changed content (last is the
\* content it saw in its previous call, -1 before the first one).
process_frame(kind, last, i, content, room) ==
    IF kind = "first_seen"
    THEN {IF last # -1 /\ last # content THEN <<i>> ELSE <<>>}
    ELSE CutLists(i, room)

\* detector.post_process(frame_num): the possible return values
post_process(kind, i, room) ==
    IF kind = "first_seen" THEN {<<>>} ELSE CutLists(i, room)

\* the test of the docstring: motion_val >= motion_threshold
SkipDecisionGeq(m, a) ==
    IF m >= a.motion_threshold THEN a.min_skip ELSE a.max_skip

\* the two branches of the skip decision exchanged
SkipDecisionSwapped(m, a) ==
    IF m > a.motion_threshold THEN a.max_skip ELSE a.min_skip

\* skip = min_skip if motion_val > motion_threshold else max_skip
SkipDecision(m, a) ==
    IF m > a.motion_threshold THEN a.min_skip ELSE a.max_skip

\* -------------------------------------------------------------------- state
VARIABLES
    pc,             \* position in __main__ / the function it is in
    video,          \* the input file: openable, frames, frame_count, fps, cuts, motions
    args,           \* parsed tunables
    det_kind,       \* which detector is driven ("any" or "first_seen")
    det_last,       \* content the detector saw in its previous call (-1: none)
    pos,            \* frames consumed from cap so far (read or grab)
    reads,          \* successful cap.read() calls
    grabs,          \* successful cap.grab() calls
    releases,       \* number of cap.release() calls
    fps,            \* local fps
    total_frames,   \* local total_frames
    frame_num,      \* local frame_num
    motion_val,     \* local motion_val of the current iteration
    skip,           \* local skip of the current iteration
    skip_i,         \* iterations of the skip loop done in the current iteration
    cut_frame_nums, \* local cut_frame_nums
    n_reported,     \* number of cuts the detector has returned, repetitions counted
    observed,       \* frame indices passed to detector.process_frame, in order
    flushed,        \* frame indices passed to detector.post_process, in order
    boundaries,     \* local boundaries
    scenes,         \* value returned by detect_scenes_dynamic / input of the merger
    final_scenes,   \* value returned by merge_short_scenes
    out_dir,        \* "untouched" or "fresh" (removed, then created again)
    idx,            \* enumerate counter of split_scenes
    ffmpeg_calls,   \* subprocess.run invocations, in order
    err             \* exception that ended the run ("none" if none)

vars == <<pc, video, args, det_kind, det_last, pos, reads, grabs, releases, fps, total_frames,
          frame_num, motion_val, skip, skip_i, cut_frame_nums, n_reported,
          observed, flushed, boundaries, scenes, final_scenes, out_dir, idx,
          ffmpeg_calls, err>>

detectVars == <<det_last, pos, reads, grabs, releases, fps, total_frames, frame_num, motion_val,
                skip, skip_i, cut_frame_nums, n_reported, observed, flushed,
                boundaries>>

splitVars == <<out_dir, idx, ffmpeg_calls>>

envVars == <<video, args, det_kind>>

\* input files: an unopenable file yields nothing
Videos ==
    {v \in [openable : {TRUE}, frames : 0..MaxFrames, frame_count : 0..(MaxFrames + 1),
             fps : FrameRates, cuts : {{}}, motions : {MotionVals}] :
        (v.frame_count - v.frames) \in FrameCountErrors}
    \cup
    {[openable |-> FALSE, frames |-> 0, frame_count |-> 0, fps |-> r,
      cuts |-> {}, motions |-> MotionVals] : r \in FrameRates}

Args ==
    [motion_threshold : MotionThresholds, min_skip : MinSkips, max_skip : MaxSkips,
     min_duration : {Rat(d, 1) : d \in MinDurations}]

\* everything but pc, video, args, det_kind, scenes before anything has run
Fresh ==
    /\ det_last = -1
    /\ pos = 0
    /\ reads = 0
    /\ grabs = 0
    /\ releases = 0
    /\ fps = 0
    /\ total_frames = 0
    /\ frame_num = 0
    /\ motion_val = 0
    /\ skip = 0
    /\ skip_i = 0
    /\ cut_frame_nums = <<>>
    /\ n_reported = 0
    /\ observed = <<>>
    /\ flushed = <<>>
    /\ boundaries = <<>>
    /\ final_scenes = <<>>
    /\ out_dir = "untouched"
    /\ idx = 0
    /\ ffmpeg_calls = <<>>
    /\ err = "none"

Init ==
    /\ pc = "open"
    /\ video \in Videos
    /\ args \in Args
    /\ det_kind = "any"
    /\ scenes = <<>>
    /\ Fresh

\* ------------------------------------------------- detect_scenes_dynamic
\* the isOpened() test left out: the run goes on with an unopened capture
OpenFailUnchecked ==
    /\ pc = "open"
    /\ ~video.openable
    /\ pc' = "first_read"
    /\ UNCHANGED <<envVars, detectVars, scenes, final_scenes, splitVars, err>>

\* cap = cv2.VideoCapture(input_path); not cap.isOpened(): raise IOError
OpenFail ==
    /\ pc = "open"
    /\ ~video.openable
    /\ err' = "IOError"
    /\ pc' = "error"
    /\ UNCHANGED <<envVars, detectVars, scenes, final_scenes, splitVars>>

\* the isOpened() test passes: fps, total_frames and the detector are set up
OpenOk ==
    /\ pc = "open"
    /\ video.openable
    /\ fps' = video.fps
    /\ total_frames' = video.frame_count
    /\ det_last' = -1
    /\ pc' = "first_read"
    /\ UNCHANGED <<envVars, pos, reads, grabs, releases, frame_num, motion_val, skip, skip_i,
                   cut_frame_nums, n_reported, observed, flushed, boundaries,
                   scenes, final_scenes, splitVars, err>>

\* the "if not ret" return left out: the function falls through to the loop
ReadFirstEmptyFallThrough ==
    /\ pc = "first_read"
    /\ pos >= video.frames
    /\ frame_num' = 1
    /\ pc' = "loop"
    /\ UNCHANGED <<envVars, det_last, pos, reads, grabs, releases, fps, total_frames, motion_val,
                   skip, skip_i, cut_frame_nums, n_reported, observed, flushed,
                   boundaries, scenes, final_scenes, splitVars, err>>

\* ret, prev_frame = cap.read() fails: cap.release(); return []
ReadFirstEmpty ==
    /\ pc = "first_read"
    /\ pos >= video.frames
    /\ releases' = releases + 1
    /\ scenes' = <<>>
    /\ pc' = "merge"
    /\ UNCHANGED <<envVars, det_last, pos, reads, grabs, fps, total_frames, frame_num, motion_val,
                   skip, skip_i, cut_frame_nums, n_reported, observed, flushed,
                   boundaries, final_scenes, splitVars, err>>

\* the first frame handed to the detector as well, with index 0
ReadFirstOkObserved ==
    /\ pc = "first_read"
    /\ pos < video.frames
    /\ pos' = pos + 1
    /\ reads' = reads + 1
    /\ cut_frame_nums' = <<>>
    /\ observed' = Append(observed, 0)
    /\ frame_num' = 1
    /\ pc' = "loop"
    /\ UNCHANGED <<envVars, det_last, grabs, releases, fps, total_frames, motion_val,
                   skip, skip_i, n_reported, flushed, boundaries, scenes,
                   final_scenes, splitVars, err>>

\* the first read succeeds: prev_gray is seeded, cut_frame_nums = [], frame_num = 1
ReadFirstOk ==
    /\ pc = "first_read"
    /\ pos < video.frames
    /\ pos' = pos + 1
    /\ reads' = reads + 1
    /\ cut_frame_nums' = <<>>
    /\ frame_num' = 1
    /\ pc' = "loop"
    /\ UNCHANGED <<envVars, det_last, grabs, releases, fps, total_frames, motion_val, skip,
                   skip_i, n_reported, observed, flushed, boundaries, scenes,
                   final_scenes, splitVars, err>>

\* ret, frame = cap.read() succeeds: motion, skip decision, detector call
ReadFrame ==
    /\ pc = "loop"
    /\ pos < video.frames
    /\ \E m \in video.motions :
        \E cuts \in process_frame(det_kind, det_last, frame_num,
                                  Content(video.cuts, pos), MaxCuts - n_reported) :
            /\ motion_val' = m
            /\ skip' = SkipDecision(m, args)
            /\ cut_frame_nums' = cut_frame_nums \o cuts
            /\ n_reported' = n_reported + Len(cuts)
    /\ det_last' = Content(video.cuts, pos)
    /\ observed' = Append(observed, frame_num)
    /\ pos' = pos + 1
    /\ reads' = reads + 1
    /\ skip_i' = 0
    /\ pc' = "skip"
    /\ UNCHANGED <<envVars, grabs, releases, fps, total_frames, frame_num, flushed,
                   boundaries, scenes, final_scenes, splitVars, err>>

\* ret, frame = cap.read() fails: break
ReadEOF ==
    /\ pc = "loop"
    /\ pos >= video.frames
    /\ pc' = "flush"
    /\ UNCHANGED <<envVars, detectVars, scenes, final_scenes, splitVars, err>>

\* the skip loop without its frame_num += 1
GrabUncounted ==
    /\ pc = "skip"
    /\ skip_i < skip
    /\ pos < video.frames
    /\ pos' = pos + 1
    /\ grabs' = grabs + 1
    /\ skip_i' = skip_i + 1
    /\ UNCHANGED <<pc, envVars, det_last, reads, releases, fps, total_frames,
                   frame_num, motion_val, skip, cut_frame_nums, n_reported, observed,
                   flushed, boundaries, scenes, final_scenes, splitVars, err>>

\* one iteration of the skip loop: cap.grab() succeeds, frame_num += 1
Grab ==
    /\ pc = "skip"
    /\ skip_i < skip
    /\ pos < video.frames
    /\ pos' = pos + 1
    /\ grabs' = grabs + 1
    /\ frame_num' = frame_num + 1
    /\ skip_i' = skip_i + 1
    /\ UNCHANGED <<pc, envVars, det_last, reads, releases, fps, total_frames, motion_val,
                   skip, cut_frame_nums, n_reported, observed, flushed, boundaries,
                   scenes, final_scenes, splitVars, err>>

\* frame_num += 1 placed before the "if not cap.grab(): break" test: the
\* failed advance is counted
GrabFailCounted ==
    /\ pc = "skip"
    /\ skip_i < skip
    /\ pos >= video.frames
    /\ frame_num' = frame_num + 2
    /\ pc' = "loop"
    /\ UNCHANGED <<envVars, det_last, pos, reads, grabs, releases, fps, total_frames,
                   motion_val, skip, skip_i, cut_frame_nums, n_reported, observed,
                   flushed, boundaries, scenes, final_scenes, splitVars, err>>

\* cap.grab() fails: break; then prev_gray = gray, frame_num += 1
GrabFail ==
    /\ pc = "skip"
    /\ skip_i < skip
    /\ pos >= video.frames
    /\ frame_num' = frame_num + 1
    /\ pc' = "loop"
    /\ UNCHANGED <<envVars, det_last, pos, reads, grabs, releases, fps, total_frames, motion_val,
                   skip, skip_i, cut_frame_nums, n_reported, observed, flushed,
                   boundaries, scenes, final_scenes, splitVars, err>>

\* range(skip) is used up; then prev_gray = gray, frame_num += 1
SkipDone ==
    /\ pc = "skip"
    /\ skip_i >= skip
    /\ frame_num' = frame_num + 1
    /\ pc' = "loop"
    /\ UNCHANGED <<envVars, det_last, pos, reads, grabs, releases, fps, total_frames, motion_val,
                   skip, skip_i, cut_frame_nums, n_reported, observed, flushed,
                   boundaries, scenes, final_scenes, splitVars, err>>

\* detector.post_process(frame_num) called, its result not added to
\* cut_frame_nums
PostProcessDiscarded ==
    /\ pc = "flush"
    /\ \E cuts \in post_process(det_kind, frame_num, MaxCuts - n_reported) :
        n_reported' = n_reported + Len(cuts)
    /\ flushed' = Append(flushed, frame_num)
    /\ releases' = releases + 1
    /\ pc' = "build"
    /\ UNCHANGED <<envVars, det_last, pos, reads, grabs, fps, total_frames, frame_num,
                   motion_val, skip, skip_i, cut_frame_nums, observed, boundaries,
                   scenes, final_scenes, splitVars, err>>

\* cuts = detector.post_process(frame_num); extend; cap.release()
PostProcess ==
    /\ pc = "flush"
    /\ \E cuts \in post_process(det_kind, frame_num, MaxCuts - n_reported) :
        /\ cut_frame_nums' = cut_frame_nums \o cuts
        /\ n_reported' = n_reported + Len(cuts)
    /\ flushed' = Append(flushed, frame_num)
    /\ releases' = releases + 1
    /\ pc' = "build"
    /\ UNCHANGED <<envVars, det_last, pos, reads, grabs, fps, total_frames, frame_num, motion_val,
                   skip, skip_i, observed, boundaries, scenes, final_scenes,
                   splitVars, err>>

\* cut_frame_nums = sorted(set(...)); boundaries; scenes; return scenes
BuildScenes ==
    /\ pc = "build"
    /\ cut_frame_nums' = SortedUnique(cut_frame_nums)
    /\ boundaries' = Boundaries(cut_frame_nums', total_frames)
    /\ scenes' = ScenesOf(boundaries', fps)
    /\ pc' = "merge"
    /\ UNCHANGED <<envVars, det_last, pos, reads, grabs, releases, fps, total_frames, frame_num,
                   motion_val, skip, skip_i, n_reported, observed, flushed,
                   final_scenes, splitVars, err>>

\* ------------------------------------------------------ merge_short_scenes
\* scenes = merge_short_scenes(scenes, min_duration=args.min_duration)
Merge ==
    /\ pc = "merge"
    /\ final_scenes' = merge_short_scenes(scenes, args.min_duration)
    /\ pc' = "split"
    /\ UNCHANGED <<envVars, detectVars, scenes, splitVars, err>>

\* ------------------------------------------------------------ split_scenes
\* rmtree(output_dir) if it exists; makedirs(output_dir)
PrepareOutputDir ==
    /\ pc = "split"
    /\ out_dir' = "fresh"
    /\ idx' = 1
    /\ pc' = "ffmpeg"
    /\ UNCHANGED <<envVars, detectVars, scenes, final_scenes, ffmpeg_calls, err>>

\* the command line of the invocation for final_scenes[i], numbered i
Command(i, ok) ==
    [n |-> i, ss |-> Fmt3(final_scenes[i][1]), to |-> Fmt3(final_scenes[i][2]),
     ok |-> ok]

\* subprocess.run(cmd, check=True) returns: the loop goes on
FfmpegOk ==
    /\ pc = "ffmpeg"
    /\ idx <= Len(final_scenes)
    /\ ffmpeg_calls' = Append(ffmpeg_calls, Command(idx, TRUE))
    /\ idx' = idx + 1
    /\ UNCHANGED <<pc, envVars, detectVars, scenes, final_scenes, out_dir, err>>

\* subprocess.run(cmd) without check=True: a failure is ignored
FfmpegFailIgnored ==
    /\ pc = "ffmpeg"
    /\ idx <= Len(final_scenes)
    /\ ffmpeg_calls' = Append(ffmpeg_calls, Command(idx, FALSE))
    /\ idx' = idx + 1
    /\ UNCHANGED <<pc, envVars, detectVars, scenes, final_scenes, out_dir, err>>

\* subprocess.run(cmd, check=True) raises CalledProcessError
FfmpegFail ==
    /\ pc = "ffmpeg"
    /\ idx <= Len(final_scenes)
    /\ ffmpeg_calls' = Append(ffmpeg_calls, Command(idx, FALSE))
    /\ err' = "CalledProcessError"
    /\ pc' = "error"
    /\ UNCHANGED <<envVars, detectVars, scenes, final_scenes, out_dir, idx>>

\* the loop is over: "All scenes have been split and saved"
SplitDone ==
    /\ pc = "ffmpeg"
    /\ idx > Len(final_scenes)
    /\ pc' = "done"
    /\ UNCHANGED <<envVars, detectVars, scenes, final_scenes, splitVars, err>>

\* ------------------------------------------------------------ the program
Next ==
    \/ OpenFail
    \/ OpenOk
    \/ ReadFirstEmpty
    \/ ReadFirstOk
    \/ ReadFrame
    \/ ReadEOF
    \/ Grab
    \/ GrabFail
    \/ SkipDone
    \/ PostProcess
    \/ BuildScenes
    \/ Merge
    \/ PrepareOutputDir
    \/ FfmpegOk
    \/ FfmpegFail
    \/ SplitDone

Spec == Init /\ [][Next]_vars

\* ------------------------------------- merge_short_scenes called directly
MergeTimes == {Rat(n, 2) : n \in 0..MaxTick}

\* the scene list of the merge example, in seconds
ExampleScenes ==
    <<<<Rat(0, 1), Rat(2, 1)>>, <<Rat(2, 1), Rat(3, 1)>>, <<Rat(3, 1), Rat(10, 1)>>>>

\* any list of (start, end) pairs, contiguous or not
MergeInputs == SeqsUpTo(MergeTimes \X MergeTimes, MaxScenes)

\* min_duration of a direct call: half a second or one second
MergeMinDurations == {Rat(1, 2), Rat(1, 1)}

\* the calls made: any list with either min_duration, and the example with 2
MergeCalls == (MergeInputs \X MergeMinDurations) \cup {<<ExampleScenes, Rat(2, 1)>>}

NoVideo ==
    [openable |-> FALSE, frames |-> 0, frame_count |-> 0, fps |-> 1, cuts |-> {},
     motions |-> MotionVals]

InitMerge ==
    /\ pc = "merge"
    /\ video = NoVideo
    /\ \E c \in MergeCalls :
        /\ scenes = c[1]
        /\ args \in [motion_threshold : MotionThresholds, min_skip : {0},
                     max_skip : {0}, min_duration : {c[2]}]
    /\ det_kind = "any"
    /\ Fresh

NextMerge == Merge

SpecMerge == InitMerge /\ [][NextMerge]_vars

\* ------------------------------------------------ the end-to-end scenario
\* a 30 fps source of 300 frames whose content changes at frames 90 and 210,
\* without motion variation, driven with max_skip from 0 to the default 5
ScenarioVideo ==
    [openable |-> TRUE, frames |-> 300, frame_count |-> 300, fps |-> 30,
     cuts |-> {90, 210}, motions |-> {0}]

InitScenario ==
    /\ pc = "open"
    /\ video = ScenarioVideo
    /\ args \in [motion_threshold : {5}, min_skip : {0}, max_skip : 0..5,
                 min_duration : {Rat(5, 1)}]
    /\ det_kind = "first_seen"
    /\ scenes = <<>>
    /\ Fresh

NextScenario ==
    \/ OpenOk
    \/ ReadFirstOk
    \/ ReadFrame
    \/ ReadEOF
    \/ Grab
    \/ GrabFail
    \/ SkipDone
    \/ PostProcess
    \/ BuildScenes

SpecScenario == InitScenario /\ [][NextScenario]_vars

\* ================================================================== claims
\* detect_scenes_dynamic has returned through the boundary builder
Built == boundaries # <<>>

\* each scene's end is the next scene's start
Contiguous(lst) == \A i \in 1..(Len(lst) - 1) : lst[i][2] = lst[i + 1][1]

\* the rational t equals n/d
IsQuotient(t, n, d) == t[1] * d = n * t[2]

\* C1: the scene list built by detect_scenes_dynamic has one scene per pair
\* of adjacent boundaries, is contiguous, starts at 0 and ends at
\* total_frames/fps, whatever the cut indices and the frame count.
C1_ContiguousExhaustive ==
    Built =>
        /\ Len(scenes) >= 1
        /\ Len(scenes) = Len(boundaries) - 1
        /\ Contiguous(scenes)
        /\ scenes[1][1] = Zero
        /\ IsQuotient(scenes[Len(scenes)][2], video.frame_count, video.fps)

\* C1 witness: three scenes at 2 fps, the cuts beyond the reported frame count
C1_Witness ==
    /\ Built
    /\ Len(scenes) >= 3
    /\ video.fps = 2
    /\ boundaries[Len(boundaries) - 1] > video.frame_count

RECURSIVE SumDurations(_)
SumDurations(lst) ==
    IF lst = <<>> THEN Zero
    ELSE RAdd(RSub(Head(lst)[2], Head(lst)[1]), SumDurations(Tail(lst)))

\* C2 as stated: for every scene list the merger preserves the sum of the
\* scene durations.
C2_SumPreservedAnyList ==
    pc = "split" => SumDurations(final_scenes) = SumDurations(scenes)

\* C2 amended: for every contiguous scene list the merger preserves the sum
\* of the scene durations.
C2_SumPreservedContiguous ==
    (pc = "split" /\ Contiguous(scenes)) =>
        SumDurations(final_scenes) = SumDurations(scenes)

\* C2 witness: a contiguous list of three scenes of which one was merged
C2_Witness ==
    /\ pc = "split"
    /\ Contiguous(scenes)
    /\ Len(scenes) = 3
    /\ Len(final_scenes) = 2
    /\ SumDurations(scenes) = Rat(1, 1)

\* the scenes that start an element of the merged list: the first one and
\* every later one whose own duration is not below md
KeptIndices(lst, md) ==
    {i \in 1..Len(lst) : i = 1 \/ ~RLess(RSub(lst[i][2], lst[i][1]), md)}

\* C3: the merged list has one element per kept scene, in order; element k
\* starts where its kept scene starts and ends where the last scene before
\* the next kept scene ends (a scene is kept when it is the first or its own
\* duration is at least min_duration); the example list gives (0,3),(3,10).
C3_SinglePass ==
    pc = "split" =>
        LET ks == SortSet(KeptIndices(scenes, args.min_duration))
            LastOf(k) == IF k < Len(ks) THEN ks[k + 1] - 1 ELSE Len(scenes)
        IN /\ Len(final_scenes) = Len(ks)
           /\ \A k \in 1..Len(ks) :
                /\ final_scenes[k][1] = scenes[ks[k]][1]
                /\ final_scenes[k][2] = scenes[LastOf(k)][2]
           /\ (scenes = ExampleScenes /\ args.min_duration = Rat(2, 1)) =>
                final_scenes = <<<<Rat(0, 1), Rat(3, 1)>>, <<Rat(3, 1), Rat(10, 1)>>>>

\* C3 witness: the example has been merged with min_duration 2
C3_Witness ==
    /\ pc = "split"
    /\ scenes = ExampleScenes
    /\ args.min_duration = Rat(2, 1)
    /\ Len(final_scenes) = 2

\* C4: on an openable source that yields no frame the run raises nothing,
\* never calls the detector, builds no boundaries, returns and merges an
\* empty list, and invokes the transcoder for no scene.
C4_EmptySource ==
    (video.openable /\ video.frames = 0) =>
        /\ err = "none"
        /\ pc \in {"open", "first_read", "merge", "split", "ffmpeg", "done"}
        /\ observed = <<>>
        /\ flushed = <<>>
        /\ n_reported = 0
        /\ boundaries = <<>>
        /\ scenes = <<>>
        /\ final_scenes = <<>>
        /\ ffmpeg_calls = <<>>
        /\ pc = "ffmpeg" => idx > Len(final_scenes)

\* C4 witness: the run over an empty source has ended after the splitter ran
C4_Witness ==
    /\ video.openable
    /\ video.frames = 0
    /\ pc = "done"
    /\ out_dir = "fresh"
    /\ releases = 1

\* C5 as stated: once detect_scenes_dynamic has been left, by return or by
\* the IOError, the capture has been released exactly once, and it is never
\* released twice.
C5_ReleasedExactlyOnce ==
    /\ releases <= 1
    /\ pc \in {"merge", "split", "ffmpeg", "done", "error"} => releases = 1

\* C6: the scenes built number the distinct cut indices reported plus one,
\* and the boundaries coming from the cuts are strictly increasing.
C6_Deduplicated ==
    [][pc = "build" =>
          /\ Len(scenes') = Cardinality(Range(cut_frame_nums)) + 1
          /\ \A i, j \in 2..(Len(boundaries') - 1) :
                i < j => boundaries'[i] < boundaries'[j]
          /\ Range(cut_frame_nums') = Range(cut_frame_nums)]_vars

\* C6 witness: scenes were built from cuts of which one was reported twice
C6_Witness ==
    /\ pc = "merge"
    /\ Built
    /\ Len(cut_frame_nums) >= 2
    /\ n_reported > Len(cut_frame_nums)

\* the scenes of the scenario as stated: (0,3), (3,7), (7,10) seconds
ScenarioScenes ==
    <<<<Rat(0, 1), Rat(3, 1)>>, <<Rat(3, 1), Rat(7, 1)>>, <<Rat(7, 1), Rat(10, 1)>>>>

\* C7 as stated: the scenario returns exactly (0,3), (3,7), (7,10).
C7_ExactScenes == pc = "merge" => scenes = ScenarioScenes

\* the first analyzed frame index at or after c when every skip is s: the
\* analyzed indices are 1, 1 + (s+1), 1 + 2(s+1), ...
FirstAnalyzed(c, s) == 1 + (s + 1) * ((c - 1 + s) \div (s + 1))

\* C7 amended: for max_skip from 0 to 5 the scenario returns three scenes
\* whose boundaries are frames 0, the first analyzed frame at or after 90, the
\* first analyzed frame at or after 210, and 300; these are (0,3), (3,7),
\* (7,10) when max_skip is 0, and frames 0, 91, 211, 300 when max_skip is 5.
C7_FirstAnalyzedScenes ==
    pc = "merge" =>
        LET bs == <<0, FirstAnalyzed(90, args.max_skip),
                    FirstAnalyzed(210, args.max_skip), 300>>
        IN /\ boundaries = bs
           /\ Len(scenes) = 3
           /\ \A i \in 1..3 : /\ IsQuotient(scenes[i][1], bs[i], 30)
                              /\ IsQuotient(scenes[i][2], bs[i + 1], 30)
           /\ args.max_skip = 0 => scenes = ScenarioScenes
           /\ args.max_skip = 5 => boundaries = <<0, 91, 211, 300>>

\* C7 witness: the scenario has returned with the default max_skip
C7_Witness ==
    /\ pc = "merge"
    /\ args.max_skip = 5
    /\ Len(scenes) = 3
    /\ scenes # ScenarioScenes

\* ms is t rounded to the nearest millisecond
IsMillis(ms, t) ==
    /\ 2 * (1000 * t[1] - ms * t[2]) <= t[2]
    /\ 2 * (ms * t[2] - 1000 * t[1]) < t[2]

\* C8: invocation i carries number i and the bounds of final scene i; only
\* the last invocation can have failed, and then the run has ended with the
\* error; a run that ends normally has made one invocation per final scene.
C8_Splitter ==
    /\ Len(ffmpeg_calls) <= Len(final_scenes)
    /\ \A i \in 1..Len(ffmpeg_calls) :
        /\ ffmpeg_calls[i].n = i
        /\ IsMillis(ffmpeg_calls[i].ss, final_scenes[i][1])
        /\ IsMillis(ffmpeg_calls[i].to, final_scenes[i][2])
        /\ i < Len(ffmpeg_calls) => ffmpeg_calls[i].ok
        /\ ~ffmpeg_calls[i].ok => (pc = "error" /\ err = "CalledProcessError")
    /\ err = "CalledProcessError" =>
        (ffmpeg_calls # <<>> /\ ~ffmpeg_calls[Len(ffmpeg_calls)].ok)
    /\ pc = "done" => Len(ffmpeg_calls) = Len(final_scenes)

\* C8 witness: the second of at least three invocations failed
C8_Witness ==
    /\ pc = "error"
    /\ err = "CalledProcessError"
    /\ Len(ffmpeg_calls) = 2
    /\ Len(final_scenes) >= 3
    /\ ffmpeg_calls[1].ok

\* C9: with an unopenable source the run is at its start or has failed with
\* the IOError; no frame was read, the detector was never called, nothing was
\* merged, the output directory is untouched and no transcoder was invoked.
C9_Unopenable ==
    ~video.openable =>
        /\ pc \in {"open", "error"}
        /\ pc = "error" => err = "IOError"
        /\ pos = 0
        /\ observed = <<>>
        /\ flushed = <<>>
        /\ boundaries = <<>>
        /\ final_scenes = <<>>
        /\ out_dir = "untouched"
        /\ ffmpeg_calls = <<>>

\* C9 witness: the run over an unopenable source has failed
C9_Witness ==
    /\ ~video.openable
    /\ pc = "error"
    /\ err = "IOError"

\* C10 as stated: on a non-empty source, with cuts at most the index of the
\* call that returns them, the boundary list has at least two entries and is
\* strictly increasing.  It is stated for the sources that report as their
\* frame count the number of frames they yield, where only the detector can
\* break it.
C10_StrictlyIncreasing ==
    (Built /\ video.frame_count = video.frames) =>
        /\ Len(boundaries) >= 2
        /\ \A i \in 1..(Len(boundaries) - 1) : boundaries[i] < boundaries[i + 1]

Last(q) == q[Len(q)]

\* C11: with a the index of the analyzed frame, s its skip decision and r the
\* frames left in the source after it, the skip loop makes min(s, r)
\* successful advances, each adding one to the frame index, and the iteration
\* ends with the index at a + 1 + min(s, r); no error is raised.
C11_SkipAdvance ==
    (observed # <<>> /\ pc \in {"skip", "loop", "flush"}) =>
        LET a == Last(observed)
            r == video.frames - (a + 1)
            j == IF skip <= r THEN skip ELSE r
        IN /\ err = "none"
           /\ skip_i <= j
           /\ pc = "skip" => frame_num = a + skip_i
           /\ pc \in {"loop", "flush"} => (skip_i = j /\ frame_num = a + 1 + j)

\* C11 witness: a skip of 2 was cut short after one advance
C11_Witness ==
    /\ pc = "loop"
    /\ observed # <<>>
    /\ skip = 2
    /\ skip_i = 1
    /\ frame_num = Last(observed) + 2
    /\ err = "none"

\* C12: the detector has been called once per successful read but the first;
\* its first call carries index 1 and its indices are strictly increasing;
\* a call is made by a successful read of the loop and by nothing else, and
\* call k carries index k plus the successful skip advances made before it,
\* so that two successive indices differ by 1 plus the frames skipped between.
C12_ObserveCalls ==
    /\ [](/\ Len(observed) = (IF reads = 0 THEN 0 ELSE reads - 1)
          /\ observed # <<>> => observed[1] = 1
          /\ \A k \in 1..(Len(observed) - 1) : observed[k] < observed[k + 1])
    /\ [][/\ observed' # observed =>
                /\ pc = "loop"
                /\ reads' = reads + 1
                /\ grabs' = grabs
                /\ observed' = Append(observed, Len(observed) + 1 + grabs)
          /\ (reads' # reads /\ reads >= 1) => Len(observed') = Len(observed) + 1
          /\ reads' # reads => reads' = reads + 1
          /\ grabs' # grabs => (grabs' = grabs + 1 /\ observed' = observed /\ reads' = reads)
          /\ pos' - pos = (reads' - reads) + (grabs' - grabs)]_vars

\* C12 witness: two calls with one skipped frame between them
C12_Witness ==
    /\ observed = <<1, 3>>
    /\ reads = 3
    /\ grabs >= 1

\* C13: the flush is called at most once, and exactly once by the time
\* detect_scenes_dynamic has returned from a non-empty source; it is called
\* with the final frame index, the number of frames the source yielded, once
\* the source is exhausted, and that index exceeds every observe index; no
\* observe call follows it; the cuts it returns are appended to the cuts
\* collected so far, and every collected cut is among the boundaries built.
C13_FlushOnce ==
    /\ [](/\ Len(flushed) <= 1
          /\ flushed # <<>> =>
                /\ flushed[1] = video.frames
                /\ flushed[1] = frame_num
                /\ pos = video.frames
                /\ \A k \in 1..Len(observed) : observed[k] < flushed[1]
          /\ (video.frames > 0 /\ pc \in {"build", "merge", "split", "ffmpeg", "done"})
                => Len(flushed) = 1
          /\ Built => Len(flushed) = 1)
    /\ [][/\ flushed' # flushed =>
                /\ pc = "flush"
                /\ flushed' = <<frame_num>>
                /\ boundaries' = <<>>
                /\ Len(cut_frame_nums') = Len(cut_frame_nums) + (n_reported' - n_reported)
                /\ SubSeq(cut_frame_nums', 1, Len(cut_frame_nums)) = cut_frame_nums
          /\ flushed # <<>> => observed' = observed
          /\ boundaries' # boundaries =>
                /\ flushed # <<>>
                /\ Range(cut_frame_nums) \subseteq Range(boundaries')]_vars

\* C13 witness: after two observe calls the flush returned cut 3, which no
\* observe call can have returned, and the boundaries were built with it
C13_Witness ==
    /\ pc = "merge"
    /\ observed = <<1, 2>>
    /\ flushed = <<3>>
    /\ cut_frame_nums = <<3>>
    /\ boundaries = <<0, 3, 3>>

Short(sc, md) == RLess(RSub(sc[2], sc[1]), md)

\* the last index of the run of short scenes that follows the first scene
\* (1 when the second scene is not short or there is none)
RECURSIVE AbsorbedUpTo(_, _, _)
AbsorbedUpTo(lst, i, md) ==
    IF i < Len(lst) /\ Short(lst[i + 1], md) THEN AbsorbedUpTo(lst, i + 1, md) ELSE i

\* no scene ends before it starts
NonNegative(lst) == \A i \in 1..Len(lst) : RLeq(lst[i][1], lst[i][2])

\* C15 as stated: a first scene shorter than min_duration is the first
\* element of the output with its original start and end.  It is stated for
\* the contiguous lists without negative durations, the lists the boundary
\* builder produces.
C15_FirstStandalone ==
    (/\ pc = "split"
     /\ scenes # <<>>
     /\ Contiguous(scenes)
     /\ NonNegative(scenes)
     /\ Short(scenes[1], args.min_duration)) =>
        (final_scenes # <<>> /\ final_scenes[1] = scenes[1])

\* C15 amended: a first scene shorter than min_duration is never merged into
\* another scene: the first element of the output starts at its start; it
\* ends at its end when no scene follows or the second scene is not short,
\* and otherwise at the end of the last of the short scenes that follow it
\* without interruption, which are absorbed into it.
C15_FirstNeverMergedBackward ==
    (pc = "split" /\ scenes # <<>> /\ Short(scenes[1], args.min_duration)) =>
        /\ final_scenes # <<>>
        /\ final_scenes[1][1] = scenes[1][1]
        /\ final_scenes[1][2] = scenes[AbsorbedUpTo(scenes, 1, args.min_duration)][2]
        /\ (Len(scenes) = 1 \/ ~Short(scenes[2], args.min_duration)) =>
                final_scenes[1] = scenes[1]

\* C15 witness: a short first scene absorbed the short scene after it
C15_Witness ==
    /\ pc = "split"
    /\ Len(scenes) = 3
    /\ Contiguous(scenes)
    /\ Short(scenes[1], args.min_duration)
    /\ Short(scenes[2], args.min_duration)
    /\ ~Short(scenes[3], args.min_duration)
    /\ Len(final_scenes) = 2
    /\ final_scenes[1] # scenes[1]

\* C16 as stated: at every point of the detection loop frame_num is the
\* number of frames consumed from the source, reads and successful skip
\* advances together.
C16_CounterIsConsumedEverywhere ==
    pc \in {"loop", "skip", "flush"} => (frame_num = reads + grabs /\ frame_num = pos)

\* C16 amended: frame_num is the number of frames consumed (reads plus
\* successful skip advances) at the head of every iteration and when the loop
\* is left; between the read of an iteration and the increment that ends it,
\* it is one less, the index of the frame being analyzed.  Hence the index
\* passed to the flush is the number of frames the source yielded and exceeds
\* every index passed to observe.
C16_CounterIsConsumedAtLoopHead ==
    /\ pos = reads + grabs
    /\ pc \in {"loop", "flush"} => frame_num = reads + grabs
    /\ pc = "skip" => frame_num = reads + grabs - 1
    /\ flushed # <<>> =>
        /\ flushed[1] = video.frames
        /\ flushed[1] = reads + grabs
        /\ \A k \in 1..Len(observed) : observed[k] < flushed[1]

\* C16 witness: the flush was called after reads and skip advances that both
\* took place, with min_skip above max_skip
C16_Witness ==
    /\ flushed = <<4>>
    /\ grabs >= 1
    /\ reads >= 3
    /\ args.min_skip > args.max_skip

\* C17: for a contiguous scene list without negative durations the merged
\* list is contiguous, starts where the input starts, ends where it ends, is
\* no longer than the input, is empty only if the input is, and its scenes
\* other than the first last at least min_duration.
C17_MergedShape ==
    (pc = "split" /\ Contiguous(scenes) /\ NonNegative(scenes)) =>
        /\ Contiguous(final_scenes)
        /\ Len(final_scenes) <= Len(scenes)
        /\ (final_scenes = <<>>) = (scenes = <<>>)
        /\ scenes # <<>> =>
            /\ final_scenes[1][1] = scenes[1][1]
            /\ final_scenes[Len(final_scenes)][2] = scenes[Len(scenes)][2]
        /\ \A k \in 2..Len(final_scenes) :
            RLeq(args.min_duration, RSub(final_scenes[k][2], final_scenes[k][1]))

\* C17 witness: a contiguous list of three scenes merged into two, the
\* second of which was extended by a short scene
C17_Witness ==
    /\ pc = "split"
    /\ Contiguous(scenes)
    /\ NonNegative(scenes)
    /\ Len(scenes) = 3
    /\ ~Short(scenes[2], args.min_duration)
    /\ Short(scenes[3], args.min_duration)
    /\ scenes[3][1] # scenes[3][2]
    /\ Len(final_scenes) = 2

\* C18: for a contiguous scene list without negative durations, merging the
\* merged list again with the same min_duration returns it unchanged.
C18_Idempotent ==
    (pc = "split" /\ Contiguous(scenes) /\ NonNegative(scenes)) =>
        merge_short_scenes(final_scenes, args.min_duration) = final_scenes

\* C18 witness: a contiguous list of three scenes of which the merger fused
\* two, so that the merged list differs from its input
C18_Witness ==
    /\ pc = "split"
    /\ Contiguous(scenes)
    /\ NonNegative(scenes)
    /\ Len(scenes) = 3
    /\ Len(final_scenes) = 2
    /\ final_scenes[1] = scenes[1]
    /\ args.min_duration = Rat(1, 1)

====
